---- MODULE Spec2Model ----
(***************************************************************************)
(* Model of the Reversi rules engine (src/src/reversi.rs, grid.rs,         *)
(* piece.rs), of the game loop that drives it (src/src/bin/reversi.rs), of *)
(* the automated player (src/src/ai.rs) and of the text of a position      *)
(* (src/src/tile_pos.rs, src/src/prompt.rs), and of the rules engine of    *)
(* the standalone program (src/src/main.rs).                               *)
(*                                                                         *)
(* A game is the record [grid, current_player, valid_moves] of struct      *)
(* Reversi.  Functions of the source are operators with the source's       *)
(* names.  Nine specifications use them:                                   *)
(*   Spec        a client that calls make_move and advance_turn on a game  *)
(*               made by Reversi::default();                               *)
(*   SpecDriver  the loop of main, one action for each iteration;          *)
(*   SpecFlips   compute_flips and compute_valid_moves called on a grid;   *)
(*   SpecSearch  the search of ai.rs, run one step of negamax at a time.   *)
(*   SpecParse   parse_move called on lines of text;                       *)
(*   SpecDriverSupplied  the loop of main with every move supplied, under  *)
(*               weak fairness of its step;                                *)
(*   SpecSearchLate  one search late in a game, under weak fairness of     *)
(*               its steps;                                                *)
(*   SpecTurns   a client that calls advance_turn several times in a row;  *)
(*   SpecBoth    the Reversi of reversi.rs and the Reversi of main.rs      *)
(*               given the same calls.                                     *)
(* The moves come from three scripted games, which are played to their     *)
(* end, and from every legal move that leaves a script, up to MaxFree.     *)
(***************************************************************************)
EXTENDS Integers, Sequences, FiniteSets, TLC

VARIABLES
    game,              \* the Reversi value: [grid, current_player, valid_moves]
    old,               \* the Reversi value before the last call that took effect
    last_op,           \* "none" | "make_move" | "advance_turn": the last call
    last_pos,          \* the argument of the last make_move call
    pc,                \* "api" | "loop" | "search" | "complete" | "eof" | "io_error" | "panicked"
    debug_assertions,  \* build profile: TRUE in a debug build, FALSE in a release build
    skipped,           \* main's local `skipped`
    call,              \* a call of a function of the library and its result
    line,              \* the scripted game being replayed (0: none)
    idx,               \* how many moves of that script have been played
    free,              \* how many calls off the script have been made
    stack,             \* the frames of the negamax calls in progress, outermost first
    ret,               \* << >>, or <<r>> with r what the last negamax or negamax_score call returned
    rng,               \* the thread's random number generator
    searches,          \* the compute_ai_move calls that returned, oldest first
    standalone         \* the Reversi value of main.rs: [grid, current_player]

search_vars == <<stack, ret, rng, searches>>

vars == <<game, old, last_op, last_pos, pc, debug_assertions, skipped, call, line, idx, free,
          stack, ret, rng, searches, standalone>>

(***************************************************************************)
(* Bounds of the exploration.                                              *)
(***************************************************************************)
\* Calls that leave the scripted games: any legal move (or pass) may be taken
\* at most MaxFree times in one run.
MaxFree == 1
\* Invalid make_move calls are tried after at most MisuseDepth calls.
MisuseDepth == 2
\* Pieces on a grid that is not taken from a game.
MaxPieces == 3
\* Empty tiles on the grid of a game that a search is started on.
MaxEmpty == 6
\* Empty tiles on the grid of a game that a search under fairness is started on.
MaxEmptyLate == 3
\* advance_turn calls made one after the other, off the scripts.
MaxTurns == 2

(***************************************************************************)
(* piece.rs, tile_pos.rs, grid.rs                                          *)
(***************************************************************************)
Piece == {"X", "O"}
None == "None"

\* opposite with the arm of O returning O.
opposite_keeps_o(p) == IF p = "X" THEN "O" ELSE "O"

opposite(p) == IF p = "X" THEN "O" ELSE "X"

P(r, c) == [row |-> r, col |-> c]

\* tiles: [[Option<Piece>; 8]; 8]
N == 8

TilePos == {P(r, c) : r \in 0 .. N - 1, c \in 0 .. N - 1}
NoPos == P(N, N)

Grid_default == [r \in 0 .. N - 1 |-> [c \in 0 .. N - 1 |-> None]]

\* The arrays have a fixed length: tiles[0].len() and tiles.len() are both 8.
row_len(grid) == N
col_len(grid) == N

tile(grid, pos) == grid[pos.row][pos.col]

place(grid, pos, piece) == [grid EXCEPT ![pos.row][pos.col] = piece]

is_full(grid) == \A r \in DOMAIN grid : \A c \in DOMAIN grid[r] : grid[r][c] # None

(***************************************************************************)
(* reversi.rs: compute_flips                                               *)
(***************************************************************************)
directions ==
    << <<-1, -1>>, <<-1, 0>>, <<-1, 1>>, <<0, -1>>, <<0, 1>>, <<1, -1>>, <<1, 0>>, <<1, 1>> >>

\* scan_direction with the edge of the board treated like a piece of the
\* player: the opponents found so far are kept.
RECURSIVE scan_direction_keeps_at_edge(_, _, _, _, _, _)
scan_direction_keeps_at_edge(grid, player, pos, d, i, found_opponents) ==
    LET row == pos.row + d[1] * i
        col == pos.col + d[2] * i
    IN  IF row >= 0 /\ row < col_len(grid) /\ col >= 0 /\ col < row_len(grid)
        THEN LET piece == grid[row][col]
             IN  IF piece = None
                 THEN << >>
                 ELSE IF piece = opposite(player)
                      THEN scan_direction_keeps_at_edge(grid, player, pos, d, i + 1,
                                                        Append(found_opponents, P(row, col)))
                      ELSE found_opponents
        ELSE found_opponents

\* The inner loop `for i in 1..` of one direction: what this direction adds to flips.
RECURSIVE scan_direction(_, _, _, _, _, _)
scan_direction(grid, player, pos, d, i, found_opponents) ==
    LET row == pos.row + d[1] * i
        col == pos.col + d[2] * i
    IN  IF row >= 0 /\ row < col_len(grid) /\ col >= 0 /\ col < row_len(grid)
        THEN LET piece == grid[row][col]
             IN  IF piece = None
                 THEN << >>
                 ELSE IF piece = opposite(player)
                      THEN scan_direction(grid, player, pos, d, i + 1,
                                          Append(found_opponents, P(row, col)))
                      ELSE found_opponents
        ELSE << >>

\* The outer loop over directions[k ..].
RECURSIVE flips_from(_, _, _, _)
flips_from(grid, player, pos, k) ==
    IF k > Len(directions)
    THEN << >>
    ELSE scan_direction(grid, player, pos, directions[k], 1, << >>)
         \o flips_from(grid, player, pos, k + 1)

compute_flips(grid, player, pos) == flips_from(grid, player, pos, 1)

(***************************************************************************)
(* reversi.rs: compute_valid_moves                                         *)
(***************************************************************************)
\* valid_moves_in_row without the test that skips occupied tiles.
RECURSIVE valid_moves_in_row_unchecked(_, _, _, _)
valid_moves_in_row_unchecked(grid, player, row, col) ==
    IF col >= row_len(grid)
    THEN << >>
    ELSE LET rest == valid_moves_in_row_unchecked(grid, player, row, col + 1)
         IN  IF compute_flips(grid, player, P(row, col)) # << >>
             THEN <<P(row, col)>> \o rest
             ELSE rest

\* The inner loop over the tiles of one row, from column col on.
RECURSIVE valid_moves_in_row(_, _, _, _)
valid_moves_in_row(grid, player, row, col) ==
    IF col >= row_len(grid)
    THEN << >>
    ELSE LET rest == valid_moves_in_row(grid, player, row, col + 1)
         IN  IF grid[row][col] # None
             THEN rest
             ELSE IF compute_flips(grid, player, P(row, col)) # << >>
                  THEN <<P(row, col)>> \o rest
                  ELSE rest

\* valid_moves_from with the rows taken last to first.
RECURSIVE valid_moves_from_reversed(_, _, _)
valid_moves_from_reversed(grid, player, row) ==
    IF row >= col_len(grid)
    THEN << >>
    ELSE valid_moves_from_reversed(grid, player, row + 1)
         \o valid_moves_in_row(grid, player, row, 0)

\* The outer loop over the rows, from row on.
RECURSIVE valid_moves_from(_, _, _)
valid_moves_from(grid, player, row) ==
    IF row >= col_len(grid)
    THEN << >>
    ELSE valid_moves_in_row(grid, player, row, 0) \o valid_moves_from(grid, player, row + 1)

compute_valid_moves(grid, player) == valid_moves_from(grid, player, 0)

(***************************************************************************)
(* reversi.rs: struct Reversi                                              *)
(***************************************************************************)
\* Reversi_default with the colours of the four initial pieces exchanged.
Reversi_default_swapped ==
    LET g1 == place(Grid_default, P(3, 3), "O")
        g2 == place(g1, P(3, 4), "X")
        g3 == place(g2, P(4, 3), "X")
        g4 == place(g3, P(4, 4), "O")
    IN  [grid |-> g4, current_player |-> "X", valid_moves |-> compute_valid_moves(g4, "X")]

Reversi_default ==
    LET g1 == place(Grid_default, P(3, 3), "X")
        g2 == place(g1, P(3, 4), "O")
        g3 == place(g2, P(4, 3), "O")
        g4 == place(g3, P(4, 4), "X")
    IN  [grid |-> g4, current_player |-> "X", valid_moves |-> compute_valid_moves(g4, "X")]

\* count_row that leaves out the last tile of the row.
RECURSIVE count_row_short(_, _, _)
count_row_short(tiles, piece, c) ==
    IF c >= N - 1
    THEN 0
    ELSE (IF tiles[c] = piece THEN 1 ELSE 0) + count_row_short(tiles, piece, c + 1)

RECURSIVE count_row(_, _, _)
count_row(tiles, piece, c) ==
    IF c >= N
    THEN 0
    ELSE (IF tiles[c] = piece THEN 1 ELSE 0) + count_row(tiles, piece, c + 1)

RECURSIVE count_from(_, _, _)
count_from(grid, piece, r) ==
    IF r >= col_len(grid)
    THEN 0
    ELSE count_row(grid[r], piece, 0) + count_from(grid, piece, r + 1)

\* scores with the two counts exchanged: (o score, x score).
scores_swapped(g) == <<count_from(g.grid, "O", 0), count_from(g.grid, "X", 0)>>

\* (x score, o score)
scores(g) == <<count_from(g.grid, "X", 0), count_from(g.grid, "O", 0)>>

\* advance_turn without the recomputation of the cached list.
advance_turn_stale(g) == [g EXCEPT !.current_player = opposite(g.current_player)]

\* advance_turn that recomputes the list and leaves the player as it is.
advance_turn_same_player(g) ==
    [g EXCEPT !.valid_moves = compute_valid_moves(g.grid, g.current_player)]

\* advance_turn that computes the list before it changes the player.
advance_turn_list_of_mover(g) ==
    [grid |-> g.grid,
     current_player |-> opposite(g.current_player),
     valid_moves |-> compute_valid_moves(g.grid, g.current_player)]

\* self.current_player = self.current_player.opposite();
\* self.valid_moves = compute_valid_moves(self.grid(), self.current_player);
advance_turn(g) ==
    LET player == opposite(g.current_player)
    IN  [grid |-> g.grid,
         current_player |-> player,
         valid_moves |-> compute_valid_moves(g.grid, player)]

\* place_all that stops before the last of the flips.
RECURSIVE place_all_but_last(_, _, _)
place_all_but_last(grid, flips, player) ==
    IF Len(flips) <= 1
    THEN grid
    ELSE place_all_but_last(place(grid, Head(flips), player), Tail(flips), player)

\* for flip_pos in flips { self.grid.place(flip_pos, player) }
RECURSIVE place_all(_, _, _)
place_all(grid, flips, player) ==
    IF flips = << >>
    THEN grid
    ELSE place_all(place(grid, Head(flips), player), Tail(flips), player)

\* make_move stops in a panic: the debug_assert! of compute_flips (debug builds
\* only) or the assert! on the flips.
make_move_panics(g, pos, dbg) ==
    \/ dbg /\ tile(g.grid, pos) # None
    \/ compute_flips(g.grid, g.current_player, pos) = << >>

\* make_move without the placement of the mover's own piece at pos.
make_move_flips_only(g, pos) ==
    LET flips == compute_flips(g.grid, g.current_player, pos)
        player == g.current_player
        flipped == place_all(g.grid, flips, player)
    IN  advance_turn([g EXCEPT !.grid = flipped])

\* make_move when it does not panic.
make_move(g, pos) ==
    LET flips == compute_flips(g.grid, g.current_player, pos)
        player == g.current_player
        flipped == place_all(g.grid, flips, player)
        placed == place(flipped, pos, player)
    IN  advance_turn([g EXCEPT !.grid = placed])

(***************************************************************************)
(* Scripted games: sequences of moves a player may enter, each legal where *)
(* it is played.  LineWipeout ends after 9 moves with O wiped out;         *)
(* LineFull fills the grid after 60 moves (X has to pass twice, then O     *)
(* once); LinePasses ends after 58 moves with both players blocked and     *)
(* two tiles empty (X has to pass three times).                            *)
(***************************************************************************)
LineWipeout ==
    << P(2,4), P(2,3), P(1,2), P(1,5), P(1,4), P(2,5), P(4,2), P(1,3),
       P(1,6) >>

LineFull ==
    << P(5,3), P(5,2), P(4,2), P(5,4), P(6,1), P(3,2), P(4,5), P(3,6),
       P(2,1), P(3,1), P(6,2), P(7,2), P(2,0), P(4,1), P(3,5), P(5,0),
       P(5,6), P(2,3), P(6,5), P(2,5), P(2,2), P(5,5), P(1,5), P(3,0),
       P(7,0), P(1,1), P(2,7), P(2,4), P(1,2), P(4,6), P(4,7), P(5,1),
       P(1,3), P(0,4), P(0,1), P(6,0), P(0,2), P(1,4), P(6,4), P(5,7),
       P(6,3), P(1,0), P(6,7), P(6,6), P(0,3), P(0,0), P(7,6), P(0,6),
       P(4,0), P(7,5), P(7,3), P(2,6), P(7,4), P(3,7), P(1,6), P(7,1),
       P(7,7), P(1,7), P(0,5), P(0,7) >>

LinePasses ==
    << P(4,2), P(3,2), P(2,3), P(5,4), P(2,2), P(2,1), P(2,0), P(1,2),
       P(0,3), P(5,2), P(3,1), P(1,0), P(1,3), P(3,0), P(5,1), P(2,4),
       P(4,0), P(0,2), P(1,5), P(5,0), P(4,5), P(0,4), P(6,4), P(0,6),
       P(2,5), P(5,3), P(0,1), P(4,6), P(6,3), P(7,3), P(6,2), P(7,2),
       P(6,1), P(7,4), P(1,4), P(2,6), P(5,5), P(0,5), P(7,5), P(3,5),
       P(1,7), P(7,6), P(1,1), P(7,1), P(3,6), P(3,7), P(6,0), P(4,1),
       P(2,7), P(6,6), P(5,7), P(1,6), P(6,5), P(0,7), P(6,7), P(7,0),
       P(0,0), P(5,6) >>

Lines == <<LineWipeout, LineFull, LinePasses>>

Range(s) == {s[i] : i \in 1 .. Len(s)}

\* The move the script asks for next, if the run is still on it.
ScriptMove(pos) ==
    /\ line > 0
    /\ idx < Len(Lines[line])
    /\ pos = Lines[line][idx + 1]

\* A call that follows the script advances it; any other call leaves the
\* script for good and uses one unit of the MaxFree budget.
FollowScript == line' = line /\ idx' = idx + 1 /\ free' = free
LeaveScript == free < MaxFree /\ line' = 0 /\ idx' = idx /\ free' = free + 1

\* Number of calls made so far (passes the script forces are not counted).
CallsMade == idx + free

\* The last call was a make_move with a position outside the legal-move list.
Misused == last_op = "make_move" /\ last_pos \notin Range(old.valid_moves)

NoCall == [fn |-> "none", player |-> "X", pos |-> NoPos, flips |-> << >>, moves |-> << >>]

(***************************************************************************)
(* ai.rs: negamax_score                                                    *)
(***************************************************************************)
CORNER_BONUS == 4
SIDE_BONUS == 2

\* rng.gen_range(low, high): the values one call can return.
gen_range(low, high) == low .. high - 1

\* add_tile_score where add_score adds the value whoever owns the piece.
add_tile_score_any_owner(grid, player, pos, value) ==
    IF tile(grid, pos) = None THEN 0 ELSE value

\* add_tile_score followed by add_score: what the piece at pos (if any) adds
\* to the score of player.
add_tile_score(grid, player, pos, value) ==
    IF tile(grid, pos) = None
    THEN 0
    ELSE IF tile(grid, pos) = player THEN value ELSE 0 - value

\* for &corner in corners { add_tile_score(corner, CORNER_BONUS) }
corners_score(grid, player) ==
    LET nrows == col_len(grid)
        ncols == row_len(grid)
    IN  add_tile_score(grid, player, P(0, 0), CORNER_BONUS)
        + add_tile_score(grid, player, P(0, ncols - 1), CORNER_BONUS)
        + add_tile_score(grid, player, P(nrows - 1, 0), CORNER_BONUS)
        + add_tile_score(grid, player, P(nrows - 1, ncols - 1), CORNER_BONUS)

\* for row in 0..nrows: the tiles (row, 0) and (row, ncols - 1).
RECURSIVE rows_score(_, _, _)
rows_score(grid, player, row) ==
    IF row >= col_len(grid)
    THEN 0
    ELSE add_tile_score(grid, player, P(row, 0), SIDE_BONUS)
         + add_tile_score(grid, player, P(row, row_len(grid) - 1), SIDE_BONUS)
         + rows_score(grid, player, row + 1)

\* for col in 0..ncols: the tiles (0, col) and (nrows - 1, col).
RECURSIVE cols_score(_, _, _)
cols_score(grid, player, col) ==
    IF col >= row_len(grid)
    THEN 0
    ELSE add_tile_score(grid, player, P(0, col), SIDE_BONUS)
         + add_tile_score(grid, player, P(col_len(grid) - 1, col), SIDE_BONUS)
         + cols_score(grid, player, col + 1)

\* negamax_score without the loop over the rows: the tiles of the first and
\* last columns get no SIDE_BONUS from it.
negamax_score_no_row_loop(g, player, score_error) ==
    LET x_score == scores(g)[1]
        o_score == scores(g)[2]
        score == IF player = "X" THEN x_score - o_score ELSE o_score - x_score
    IN  score + corners_score(g.grid, player)
        + cols_score(g.grid, player, 0) + score_error

\* negamax_score(rng, game, player), with score_error the value that
\* rng.gen_range(-100, 100) returns.
negamax_score(g, player, score_error) ==
    LET x_score == scores(g)[1]
        o_score == scores(g)[2]
        score == IF player = "X" THEN x_score - o_score ELSE o_score - x_score
    IN  score + corners_score(g.grid, player) + rows_score(g.grid, player, 0)
        + cols_score(g.grid, player, 0) + score_error

(***************************************************************************)
(* ai.rs: negamax.  A call in progress is a frame; the calls in progress   *)
(* are the stack.  A frame holds the arguments and the locals of the call, *)
(* the game behind its `game` reference, and that game as it was when the  *)
(* call was made.                                                          *)
(***************************************************************************)
MAX_DEPTH == 4

\* i32::min_value()
MinI32 == (0 - 2147483647) - 1

\* A frame whose depth also counts the searches made before: a depth that
\* is kept from one search to the next.
NewFrame_depth_carried(g, valid, sk, depth) ==
    [game |-> g, given |-> g, valid_moves |-> valid, skipped |-> sk,
     depth |-> depth + Len(searches),
     at |-> "entry", i |-> 0, max_move |-> NoPos, max_score |-> MinI32]

\* The frame of negamax(rng, &g, &valid, sk, depth) when the call is made:
\* max_move = None, max_score = i32::min_value().
NewFrame(g, valid, sk, depth) ==
    [game |-> g, given |-> g, valid_moves |-> valid, skipped |-> sk, depth |-> depth,
     at |-> "entry", i |-> 0, max_move |-> NoPos, max_score |-> MinI32]

\* cutoff with depth > MAX_DEPTH for the first test.
cutoff_one_late(f) ==
    \/ f.depth > MAX_DEPTH
    \/ is_full(f.game.grid)
    \/ (f.skipped /\ f.valid_moves = << >>)

\* depth >= MAX_DEPTH || game.grid().is_full() || (skipped && valid_moves.is_empty())
cutoff(f) ==
    \/ f.depth >= MAX_DEPTH
    \/ is_full(f.game.grid)
    \/ (f.skipped /\ f.valid_moves = << >>)

\* pass_child where advance_turn is applied to the caller's game itself.
pass_child_in_place(f) ==
    LET mgame == advance_turn(f.game)
    IN  [parent |-> [f EXCEPT !.at = "pass", !.game = mgame],
         child |-> NewFrame(mgame, mgame.valid_moves, TRUE, f.depth + 1)]

\* pass_child with skipped = false in the recursive call.
pass_child_flag_lost(f) ==
    LET mgame == advance_turn(f.game)
    IN  [parent |-> [f EXCEPT !.at = "pass"],
         child |-> NewFrame(mgame, mgame.valid_moves, FALSE, f.depth + 1)]

\* The pass branch: mgame = game.clone(); mgame.advance_turn(); and the
\* recursive call on mgame.
pass_child(f) ==
    LET mgame == advance_turn(f.game)
    IN  [parent |-> [f EXCEPT !.at = "pass"],
         child |-> NewFrame(mgame, mgame.valid_moves, TRUE, f.depth + 1)]

\* move_child where make_move is applied to the caller's game itself.
move_child_in_place(f, k) ==
    LET pmove == f.valid_moves[k]
        mgame == make_move(f.game, pmove)
    IN  [parent |-> [f EXCEPT !.at = "loop", !.i = k, !.game = mgame],
         child |-> NewFrame(mgame, mgame.valid_moves, FALSE, f.depth + 1)]

\* move_child with depth, not depth + 1, in the recursive call.
move_child_same_depth(f, k) ==
    LET pmove == f.valid_moves[k]
        mgame == make_move(f.game, pmove)
    IN  [parent |-> [f EXCEPT !.at = "loop", !.i = k],
         child |-> NewFrame(mgame, mgame.valid_moves, FALSE, f.depth)]

\* One iteration of `for &pmove in valid_moves`, up to the recursive call:
\* mgame = game.clone(); mgame.make_move(pmove); and the call on mgame.
move_child(f, k) ==
    LET pmove == f.valid_moves[k]
        mgame == make_move(f.game, pmove)
    IN  [parent |-> [f EXCEPT !.at = "loop", !.i = k],
         child |-> NewFrame(mgame, mgame.valid_moves, FALSE, f.depth + 1)]

\* keep_max that records the move the child returned.
keep_max_child_move(f, r) ==
    LET score == 0 - r.score
    IN  IF score > f.max_score
        THEN [f EXCEPT !.max_move = r.move, !.max_score = score]
        ELSE f

\* keep_max with >= for >: the later of two moves with the same score wins.
keep_max_later_wins(f, r) ==
    LET score == 0 - r.score
    IN  IF score >= f.max_score
        THEN [f EXCEPT !.max_move = f.valid_moves[f.i], !.max_score = score]
        ELSE f

\* The rest of the iteration, with r what the recursive call returned:
\* score = -score; if score > max_score { max_move = Some(pmove); max_score = score }
keep_max(f, r) ==
    LET score == 0 - r.score
    IN  IF score > f.max_score
        THEN [f EXCEPT !.max_move = f.valid_moves[f.i], !.max_score = score]
        ELSE f

\* The stack with its innermost frame replaced by the frames fs.
Replace(fs) == SubSeq(stack, 1, Len(stack) - 1) \o fs

Top == stack[Len(stack)]

(***************************************************************************)
(* The random number generator: a stream of values of gen_range(-100, 100),*)
(* taken in turn.  drawn is the set of the values taken so far.            *)
(***************************************************************************)
ErrValues == {v \in {-100, 0, 99, 100} : v \in gen_range(-100, 100)}

ErrStreams == {s \in {<<0>>, <<-100>>, <<99>>, <<-100, 99>>, <<99, 0, -100>>} :
                 Range(s) \subseteq ErrValues}

\* The evaluator's random term is fixed to 0.
ZeroNoise == rng.errs = <<0>>

\* let score_error = rng.gen_range(-100, 100);
score_error == rng.errs[rng.at]
Draw == rng' = [errs |-> rng.errs,
                at |-> (rng.at % Len(rng.errs)) + 1,
                drawn |-> rng.drawn \cup {score_error}]

\* The program of main.rs is not running.
NoStandalone == [running |-> FALSE]

\* No search is in progress and none was made.
SearchIdle ==
    /\ stack = << >>
    /\ ret = << >>
    /\ rng = [errs |-> <<0>>, at |-> 1, drawn |-> {}]
    /\ searches = << >>

(***************************************************************************)
(* Specification Spec: a client of the Reversi API.  From                  *)
(* Reversi::default() it calls make_move (with any position of the grid)   *)
(* and advance_turn; it stops after a make_move outside the legal moves.   *)
(***************************************************************************)
Init ==
    /\ game = Reversi_default
    /\ old = Reversi_default
    /\ last_op = "none"
    /\ last_pos = NoPos
    /\ pc = "api"
    /\ debug_assertions \in BOOLEAN
    /\ skipped = FALSE
    /\ call = NoCall
    /\ line \in 1 .. Len(Lines)
    /\ idx = 0
    /\ free = 0
    /\ SearchIdle
    /\ standalone = NoStandalone

\* self.make_move(pos) on the game, from the state with program counter at:
\* a panic leaves the game as it was and ends the program.
DoMakeMove(pos, at) ==
    /\ last_op' = "make_move"
    /\ last_pos' = pos
    /\ old' = game
    /\ IF make_move_panics(game, pos, debug_assertions)
       THEN pc' = "panicked" /\ game' = game
       ELSE pc' = at /\ game' = make_move(game, pos)

\* self.advance_turn() on the game.
DoAdvanceTurn ==
    /\ last_op' = "advance_turn"
    /\ last_pos' = NoPos
    /\ old' = game
    /\ game' = advance_turn(game)

\* game.make_move(pos), for any position of the grid.
MakeMove(pos) ==
    /\ pc = "api"
    /\ ~Misused
    /\ IF pos \in Range(game.valid_moves)
       THEN IF ScriptMove(pos) THEN FollowScript ELSE LeaveScript
       ELSE CallsMade <= MisuseDepth /\ UNCHANGED <<line, idx, free>>
    /\ DoMakeMove(pos, "api")
    /\ UNCHANGED <<debug_assertions, skipped, call>>
    /\ UNCHANGED <<search_vars, standalone>>

\* game.advance_turn()
AdvanceTurn ==
    /\ pc = "api"
    /\ ~Misused
    /\ IF line > 0 /\ game.valid_moves = << >>
       THEN UNCHANGED <<line, idx, free>>
       ELSE LeaveScript
    /\ DoAdvanceTurn
    /\ UNCHANGED <<pc, debug_assertions, skipped, call>>
    /\ UNCHANGED <<search_vars, standalone>>

Next ==
    \/ \E pos \in TilePos : MakeMove(pos)
    \/ AdvanceTurn

Spec == Init /\ [][Next]_vars

(***************************************************************************)
(* Specification SpecDriver: the loop of main in bin/reversi.rs.  One      *)
(* action is one iteration of the loop.                                    *)
(***************************************************************************)
\* let ai_controlled = &[Piece::O]; // Human vs AI
ai_controlled == {"O"}

\* game_complete without the skipped flag: over at the first player without a move.
game_complete_first_pass(g, sk) == is_full(g.grid) \/ g.valid_moves = << >>

\* game_complete without the test of the list: over whenever the turn
\* before was skipped.
game_complete_after_any_pass(g, sk) == is_full(g.grid) \/ sk

\* game_complete without the test of two passes: over on a full grid only.
game_complete_full_only(g, sk) == is_full(g.grid)

\* game.grid().is_full() || (skipped && valid_moves.is_empty())
game_complete(g, sk) == is_full(g.grid) \/ (sk /\ g.valid_moves = << >>)

\* The moves compute_ai_move can return for a non-empty list: negamax returns
\* one of the moves it iterates over, and which one depends on the random
\* term of the evaluation.
compute_ai_move(g, valid) == Range(valid)

\* prompt_move without the test valid_moves.contains(&pmove): any position
\* that parses is returned.
prompt_move_unchecked(valid) == TilePos

\* The positions prompt_move can return as Ok: it loops until the position
\* entered is one of valid_moves.
prompt_move(valid) == {pos \in TilePos : pos \in Range(valid)}

InitDriver ==
    /\ game = Reversi_default
    /\ old = Reversi_default
    /\ last_op = "none"
    /\ last_pos = NoPos
    /\ pc = "loop"
    /\ debug_assertions \in BOOLEAN
    /\ skipped = FALSE
    /\ call = NoCall
    /\ line \in 1 .. Len(Lines)
    /\ idx = 0
    /\ free = 0
    /\ SearchIdle
    /\ standalone = NoStandalone

\* The game is complete: print the result and break.
DriverComplete ==
    /\ pc = "loop"
    /\ game_complete(game, skipped)
    /\ pc' = "complete"
    /\ UNCHANGED <<game, old, last_op, last_pos, debug_assertions, skipped, call, line, idx, free>>
    /\ UNCHANGED <<search_vars, standalone>>

\* No moves available: skip the turn.
DriverSkip ==
    /\ pc = "loop"
    /\ ~game_complete(game, skipped)
    /\ game.valid_moves = << >>
    /\ skipped' = TRUE
    /\ DoAdvanceTurn
    /\ UNCHANGED <<pc, debug_assertions, call, line, idx, free>>
    /\ UNCHANGED <<search_vars, standalone>>

\* No moves available for the human player, and reading the line that
\* acknowledges it fails: prompt(..).unwrap() panics.
DriverSkipPanic ==
    /\ pc = "loop"
    /\ ~game_complete(game, skipped)
    /\ game.valid_moves = << >>
    /\ game.current_player \notin ai_controlled
    /\ pc' = "panicked"
    /\ UNCHANGED <<game, old, last_op, last_pos, debug_assertions, skipped, call, line, idx, free>>
    /\ UNCHANGED <<search_vars, standalone>>

\* The AI's turn.
DriverAiMove ==
    /\ pc = "loop"
    /\ ~game_complete(game, skipped)
    /\ game.valid_moves # << >>
    /\ game.current_player \in ai_controlled
    /\ skipped' = FALSE
    /\ \E pmove \in compute_ai_move(game, game.valid_moves) :
          /\ IF ScriptMove(pmove) THEN FollowScript ELSE LeaveScript
          /\ DoMakeMove(pmove, "loop")
    /\ UNCHANGED <<debug_assertions, call>>
    /\ UNCHANGED <<search_vars, standalone>>

\* DriverHumanMove without `skipped = false`.
DriverHumanMove_keeps_skipped ==
    /\ pc = "loop"
    /\ ~game_complete(game, skipped)
    /\ game.valid_moves # << >>
    /\ game.current_player \notin ai_controlled
    /\ skipped' = skipped
    /\ \E pmove \in prompt_move(game.valid_moves) :
          /\ IF ScriptMove(pmove) THEN FollowScript ELSE LeaveScript
          /\ DoMakeMove(pmove, "loop")
    /\ UNCHANGED <<debug_assertions, call>>
    /\ UNCHANGED <<search_vars, standalone>>

\* The human's turn, and prompt_move returns Ok(pmove).
DriverHumanMove ==
    /\ pc = "loop"
    /\ ~game_complete(game, skipped)
    /\ game.valid_moves # << >>
    /\ game.current_player \notin ai_controlled
    /\ skipped' = FALSE
    /\ \E pmove \in prompt_move(game.valid_moves) :
          /\ IF ScriptMove(pmove) THEN FollowScript ELSE LeaveScript
          /\ DoMakeMove(pmove, "loop")
    /\ UNCHANGED <<debug_assertions, call>>
    /\ UNCHANGED <<search_vars, standalone>>

\* The human's turn, and prompt_move returns Err(ParseError::EndOfInput).
DriverEndOfInput ==
    /\ pc = "loop"
    /\ ~game_complete(game, skipped)
    /\ game.valid_moves # << >>
    /\ game.current_player \notin ai_controlled
    /\ skipped' = FALSE
    /\ pc' = "eof"
    /\ UNCHANGED <<game, old, last_op, last_pos, debug_assertions, call, line, idx, free>>
    /\ UNCHANGED <<search_vars, standalone>>

\* The human's turn, and prompt_move returns Err(ParseError::IOError(err)).
DriverIoError ==
    /\ pc = "loop"
    /\ ~game_complete(game, skipped)
    /\ game.valid_moves # << >>
    /\ game.current_player \notin ai_controlled
    /\ skipped' = FALSE
    /\ pc' = "io_error"
    /\ UNCHANGED <<game, old, last_op, last_pos, debug_assertions, call, line, idx, free>>
    /\ UNCHANGED <<search_vars, standalone>>

NextDriver ==
    \/ DriverComplete
    \/ DriverSkip
    \/ DriverSkipPanic
    \/ DriverAiMove
    \/ DriverHumanMove
    \/ DriverEndOfInput
    \/ DriverIoError

SpecDriver == InitDriver /\ [][NextDriver]_vars

(***************************************************************************)
(* Specification SpecDriverSupplied: the runs of the loop of main in which *)
(* every move asked for is supplied (prompt and prompt_move never fail),   *)
(* for the games of Lines.  The loop is a sequential program that runs on  *)
(* while it has a step to take, which is the weak fairness of its step.    *)
(***************************************************************************)
\* The AI's turn, and compute_ai_move returns the next move of the line.
DriverAiMoveScripted == free' = free /\ DriverAiMove

\* The human's turn, and prompt_move returns the next move of the line.
DriverHumanMoveScripted == free' = free /\ DriverHumanMove

NextDriverSupplied ==
    \/ DriverComplete
    \/ DriverSkip
    \/ DriverAiMoveScripted
    \/ DriverHumanMoveScripted

SpecDriverSupplied ==
    InitDriver /\ [][NextDriverSupplied]_vars /\ WF_vars(NextDriverSupplied)

(***************************************************************************)
(* Specification SpecFlips: compute_flips and compute_valid_moves as       *)
(* functions of a grid and a player.  The grids are those of the scripted  *)
(* games and every grid with at most MaxPieces pieces, all of them inside  *)
(* one of two opposite 3x3 corners of the board.  The build is a debug     *)
(* build, where compute_flips asserts that its tile is empty.              *)
(***************************************************************************)
Windows ==
    { {P(r, c) : r \in 0 .. 2, c \in 0 .. 2},
      {P(r, c) : r \in N - 3 .. N - 1, c \in N - 3 .. N - 1} }

\* The grid with the pieces of f and nothing else.
GridOf(f) ==
    [r \in 0 .. N - 1 |-> [c \in 0 .. N - 1 |->
        IF P(r, c) \in DOMAIN f THEN f[P(r, c)] ELSE None]]

WindowGrids ==
    UNION { { GridOf(f) : f \in { h \in [w -> Piece \cup {None}] :
                                    Cardinality({t \in w : h[t] # None}) <= MaxPieces } }
            : w \in Windows }

InitFlips ==
    /\ \/ game = Reversi_default /\ line \in 1 .. Len(Lines)
       \/ /\ line = 0
          /\ \E grid \in WindowGrids :
                game = [grid |-> grid, current_player |-> "X",
                        valid_moves |-> compute_valid_moves(grid, "X")]
    /\ old = game
    /\ last_op = "none"
    /\ last_pos = NoPos
    /\ pc = "api"
    /\ debug_assertions = TRUE
    /\ skipped = FALSE
    /\ call = NoCall
    /\ idx = 0
    /\ free = 0
    /\ SearchIdle
    /\ standalone = NoStandalone

\* The next call of the scripted game: the scripted move, or advance_turn
\* when the player to move has no move.
FlipsPlay ==
    /\ call = NoCall
    /\ line > 0
    /\ IF game.valid_moves = << >>
       THEN /\ ~is_full(game.grid)
            /\ last_op # "advance_turn"
            /\ DoAdvanceTurn
            /\ UNCHANGED <<pc, line, idx, free>>
       ELSE /\ idx < Len(Lines[line])
            /\ DoMakeMove(Lines[line][idx + 1], "api")
            /\ FollowScript
    /\ UNCHANGED <<debug_assertions, skipped, call>>
    /\ UNCHANGED <<search_vars, standalone>>

\* compute_flips(&grid, player, pos) on an empty tile of the grid.
CallComputeFlips(player, pos) ==
    /\ call = NoCall
    /\ tile(game.grid, pos) = None
    /\ call' = [fn |-> "compute_flips", player |-> player, pos |-> pos,
                flips |-> compute_flips(game.grid, player, pos), moves |-> << >>]
    /\ UNCHANGED <<game, old, last_op, last_pos, pc, debug_assertions, skipped, line, idx, free>>
    /\ UNCHANGED <<search_vars, standalone>>

\* compute_valid_moves(&grid, player)
CallComputeValidMoves(player) ==
    /\ call = NoCall
    /\ call' = [fn |-> "compute_valid_moves", player |-> player, pos |-> NoPos,
                flips |-> << >>, moves |-> compute_valid_moves(game.grid, player)]
    /\ UNCHANGED <<game, old, last_op, last_pos, pc, debug_assertions, skipped, line, idx, free>>
    /\ UNCHANGED <<search_vars, standalone>>

NextFlips ==
    \/ FlipsPlay
    \/ \E player \in Piece, pos \in TilePos : CallComputeFlips(player, pos)
    \/ \E player \in Piece : CallComputeValidMoves(player)

SpecFlips == InitFlips /\ [][NextFlips]_vars

(***************************************************************************)
(* Specification SpecSearch: compute_ai_move, random_ai and negamax_score  *)
(* called on the games of the scripts.  A search is run one step of        *)
(* negamax at a time: a step enters a call, or takes up the caller where a *)
(* call returned.  The searches start late in a game, with at most         *)
(* MaxEmpty empty tiles, where the tree of calls is small.                 *)
(***************************************************************************)
InitSearch ==
    /\ game = Reversi_default
    /\ old = Reversi_default
    /\ last_op = "none"
    /\ last_pos = NoPos
    /\ pc = "api"
    /\ debug_assertions = TRUE
    /\ skipped = FALSE
    /\ call = NoCall
    /\ line \in 1 .. Len(Lines)
    /\ idx = 0
    /\ free = 0
    /\ stack = << >>
    /\ ret = << >>
    /\ rng \in {[errs |-> s, at |-> 1, drawn |-> {}] : s \in ErrStreams}
    /\ searches = << >>
    /\ standalone = NoStandalone

\* The next call of the scripted game: the scripted move, or advance_turn
\* when the player to move has no move.
SearchPlay ==
    /\ pc = "api"
    /\ call = NoCall
    /\ line > 0
    /\ IF game.valid_moves = << >>
       THEN /\ ~is_full(game.grid)
            /\ last_op # "advance_turn"
            /\ DoAdvanceTurn
            /\ UNCHANGED <<pc, line, idx, free>>
       ELSE /\ idx < Len(Lines[line])
            /\ DoMakeMove(Lines[line][idx + 1], "api")
            /\ FollowScript
    /\ UNCHANGED <<debug_assertions, skipped, call>>
    /\ UNCHANGED <<search_vars, standalone>>

\* compute_ai_move(&game, &valid), which is negamax_ai(&mut rng, game, valid):
\* the call negamax(rng, game, valid, false, 0) is made.
CallComputeAiMove(valid) ==
    /\ pc = "api"
    /\ call.fn \in {"none", "compute_ai_move"}
    /\ Len(searches) < 2
    /\ count_from(game.grid, None, 0) <= MaxEmpty
    /\ pc' = "search"
    /\ call' = [fn |-> "compute_ai_move", player |-> game.current_player, pos |-> NoPos,
                flips |-> << >>, moves |-> valid]
    /\ stack' = <<NewFrame(game, valid, FALSE, 0)>>
    /\ ret' = << >>
    /\ UNCHANGED <<standalone, game, old, last_op, last_pos, debug_assertions, skipped, line, idx, free,
                   rng, searches>>

\* The call entered is a leaf: return (None, negamax_score(rng, game, game.current_player())).
NegamaxCutoff ==
    /\ pc = "search"
    /\ stack # << >>
    /\ Top.at = "entry"
    /\ cutoff(Top)
    /\ ret' = <<[move |-> NoPos,
                 score |-> negamax_score(Top.game, Top.game.current_player, score_error),
                 frame |-> Top]>>
    /\ Draw
    /\ stack' = Replace(<< >>)
    /\ UNCHANGED <<standalone, game, old, last_op, last_pos, pc, debug_assertions, skipped, call,
                   line, idx, free, searches>>

\* The call entered has no valid move: skip the turn and search on.
NegamaxPass ==
    /\ pc = "search"
    /\ stack # << >>
    /\ Top.at = "entry"
    /\ ~cutoff(Top)
    /\ Top.valid_moves = << >>
    /\ stack' = Replace(<<pass_child(Top).parent, pass_child(Top).child>>)
    /\ UNCHANGED <<standalone, game, old, last_op, last_pos, pc, debug_assertions, skipped, call,
                   line, idx, free, ret, rng, searches>>

\* The call made for the skipped turn returned: return what it returned.
NegamaxPassReturn ==
    /\ pc = "search"
    /\ stack # << >>
    /\ Top.at = "pass"
    /\ ret # << >>
    /\ ret' = <<[move |-> ret[1].move, score |-> ret[1].score, frame |-> Top]>>
    /\ stack' = Replace(<< >>)
    /\ UNCHANGED <<standalone, game, old, last_op, last_pos, pc, debug_assertions, skipped, call,
                   line, idx, free, rng, searches>>

\* The call entered has valid moves: the first iteration of the loop.
NegamaxFirstMove ==
    /\ pc = "search"
    /\ stack # << >>
    /\ Top.at = "entry"
    /\ ~cutoff(Top)
    /\ Top.valid_moves # << >>
    /\ stack' = Replace(<<move_child(Top, 1).parent, move_child(Top, 1).child>>)
    /\ UNCHANGED <<standalone, game, old, last_op, last_pos, pc, debug_assertions, skipped, call,
                   line, idx, free, ret, rng, searches>>

\* The call of an iteration returned and there are moves left: the end of
\* this iteration and the next one.
NegamaxNextMove ==
    /\ pc = "search"
    /\ stack # << >>
    /\ Top.at = "loop"
    /\ ret # << >>
    /\ Top.i < Len(Top.valid_moves)
    /\ LET f == keep_max(Top, ret[1])
       IN  stack' = Replace(<<move_child(f, f.i + 1).parent, move_child(f, f.i + 1).child>>)
    /\ ret' = << >>
    /\ UNCHANGED <<standalone, game, old, last_op, last_pos, pc, debug_assertions, skipped, call,
                   line, idx, free, rng, searches>>

\* The call of the last iteration returned: return (max_move, max_score).
NegamaxLoopEnd ==
    /\ pc = "search"
    /\ stack # << >>
    /\ Top.at = "loop"
    /\ ret # << >>
    /\ Top.i = Len(Top.valid_moves)
    /\ LET f == keep_max(Top, ret[1])
       IN  ret' = <<[move |-> f.max_move, score |-> f.max_score, frame |-> f]>>
    /\ stack' = Replace(<< >>)
    /\ UNCHANGED <<standalone, game, old, last_op, last_pos, pc, debug_assertions, skipped, call,
                   line, idx, free, rng, searches>>

\* negamax returned to negamax_ai: pmove.unwrap(), a panic when pmove is None.
NegamaxAiUnwrap ==
    /\ pc = "search"
    /\ stack = << >>
    /\ ret # << >>
    /\ IF ret[1].move = NoPos
       THEN pc' = "panicked" /\ searches' = searches
       ELSE /\ pc' = "api"
            /\ searches' = Append(searches, [valid_moves |-> call.moves,
                                             move |-> ret[1].move,
                                             score |-> ret[1].score,
                                             game |-> ret[1].frame.game])
    /\ UNCHANGED <<standalone, game, old, last_op, last_pos, debug_assertions, skipped, call,
                   line, idx, free, stack, ret, rng>>

\* random_ai(&mut rng, game, valid): *valid.choose(rng).expect(..), a panic
\* when the list is empty.
CallRandomAi(valid) ==
    /\ pc = "api"
    /\ call = NoCall
    /\ IF valid = << >>
       THEN /\ pc' = "panicked"
            /\ call' = [fn |-> "random_ai", player |-> game.current_player, pos |-> NoPos,
                        flips |-> << >>, moves |-> valid]
       ELSE /\ pc' = pc
            /\ \E k \in 1 .. Len(valid) :
                  call' = [fn |-> "random_ai", player |-> game.current_player,
                           pos |-> valid[k], flips |-> << >>, moves |-> valid]
    /\ UNCHANGED <<game, old, last_op, last_pos, debug_assertions, skipped, line, idx, free>>
    /\ UNCHANGED <<search_vars, standalone>>

\* negamax_score(&mut rng, &game, player)
CallNegamaxScore(player) ==
    /\ pc = "api"
    /\ call = NoCall
    /\ call' = [fn |-> "negamax_score", player |-> player, pos |-> NoPos,
                flips |-> << >>, moves |-> << >>]
    /\ ret' = <<[move |-> NoPos,
                 score |-> negamax_score(game, player, score_error),
                 frame |-> NewFrame(game, << >>, FALSE, 0)]>>
    /\ Draw
    /\ UNCHANGED <<standalone, game, old, last_op, last_pos, pc, debug_assertions, skipped,
                   line, idx, free, stack, searches>>

NextSearch ==
    \/ SearchPlay
    \/ \E valid \in {game.valid_moves, << >>} : CallComputeAiMove(valid)
    \/ NegamaxCutoff
    \/ NegamaxPass
    \/ NegamaxPassReturn
    \/ NegamaxFirstMove
    \/ NegamaxNextMove
    \/ NegamaxLoopEnd
    \/ NegamaxAiUnwrap
    \/ \E valid \in {game.valid_moves, << >>} : CallRandomAi(valid)
    \/ \E player \in Piece : CallNegamaxScore(player)

SpecSearch == InitSearch /\ [][NextSearch]_vars

(***************************************************************************)
(* Specification SpecSearchLate: one search, called late in a game of      *)
(* Lines (at most MaxEmptyLate empty tiles), with the random term of the   *)
(* evaluation at 0.  negamax is sequential code that runs on once called:  *)
(* its steps are weakly fair.                                              *)
(***************************************************************************)
InitSearchLate == InitSearch /\ ZeroNoise

\* compute_ai_move(&game, &valid), called once, late in the game.
CallComputeAiMoveLate(valid) ==
    /\ count_from(game.grid, None, 0) <= MaxEmptyLate
    /\ searches = << >>
    /\ CallComputeAiMove(valid)

\* A step of the search in progress.
NegamaxStep ==
    \/ NegamaxCutoff
    \/ NegamaxPass
    \/ NegamaxPassReturn
    \/ NegamaxFirstMove
    \/ NegamaxNextMove
    \/ NegamaxLoopEnd
    \/ NegamaxAiUnwrap

NextSearchLate ==
    \/ SearchPlay
    \/ \E valid \in {game.valid_moves, << >>} : CallComputeAiMoveLate(valid)
    \/ NegamaxStep

SpecSearchLate == InitSearchLate /\ [][NextSearchLate]_vars /\ WF_vars(NegamaxStep)

(***************************************************************************)
(* tile_pos.rs: Display, and prompt.rs: parse_move.  A text is the         *)
(* sequence of its bytes.                                                  *)
(***************************************************************************)
\* The decimal digits of n, as `{}` writes a usize.
RECURSIVE decimal(_)
decimal(n) == IF n < 10 THEN <<48 + n>> ELSE decimal(n \div 10) \o <<48 + (n % 10)>>

\* fmt that writes the row as it is stored, from 0.
fmt_row_from_zero(pos) == <<65 + pos.col>> \o decimal(pos.row)

\* write!(f, "{}{}", (b'A' + self.col as u8) as char, self.row + 1)
fmt(pos) == <<65 + pos.col>> \o decimal(pos.row + 1)

\* byte_to_usize(byte, start)
byte_to_usize(byte, start) == byte - start

\* parse_move(line) for a line that is not empty: Ok(pos) is
\* [ok |-> TRUE, pos |-> pos], Err(ParseError::InvalidInput(line)) is
\* [ok |-> FALSE, pos |-> NoPos].
parse_move(bytes) ==
    LET body == SubSeq(bytes, 1, Len(bytes) - 1)
    IN  IF Len(body) = 2 /\ body[1] \in 65 .. 72 /\ body[2] \in 49 .. 56
        THEN [ok |-> TRUE, pos |-> [row |-> byte_to_usize(bytes[2], 49),
                                    col |-> byte_to_usize(bytes[1], 65)]]
        ELSE IF Len(body) = 2 /\ body[1] \in 97 .. 104 /\ body[2] \in 49 .. 56
        THEN [ok |-> TRUE, pos |-> [row |-> byte_to_usize(bytes[2], 49),
                                    col |-> byte_to_usize(bytes[1], 97)]]
        ELSE IF Len(body) = 2 /\ body[1] \in 49 .. 56 /\ body[2] \in 65 .. 72
        THEN [ok |-> TRUE, pos |-> [row |-> byte_to_usize(bytes[1], 49),
                                    col |-> byte_to_usize(bytes[2], 65)]]
        ELSE IF Len(body) = 2 /\ body[1] \in 49 .. 56 /\ body[2] \in 97 .. 104
        THEN [ok |-> TRUE, pos |-> [row |-> byte_to_usize(bytes[1], 49),
                                    col |-> byte_to_usize(bytes[2], 97)]]
        ELSE [ok |-> FALSE, pos |-> NoPos]

(***************************************************************************)
(* Specification SpecParse: parse_move called on lines a user can enter,   *)
(* and on the text that Display writes for a position.                     *)
(***************************************************************************)
\* The bytes of the lines: 0-9, @, A-I, `, a-i.
Alphabet == (48 .. 57) \cup (64 .. 73) \cup (96 .. 105)

\* Two bytes and the newline; and lines of other shapes: only the newline,
\* one byte, three bytes, a carriage return, no newline.
InputLines ==
    {<<a, b, 10>> : a \in Alphabet, b \in Alphabet}
    \cup {<<10>>, <<65, 10>>, <<65, 49, 49, 10>>, <<65, 49, 13, 10>>, <<65, 49>>, <<32, 65, 49, 10>>}

InitParse ==
    /\ game = Reversi_default
    /\ old = Reversi_default
    /\ last_op = "none"
    /\ last_pos = NoPos
    /\ pc = "api"
    /\ debug_assertions \in BOOLEAN
    /\ skipped = FALSE
    /\ call = NoCall
    /\ line = 0
    /\ idx = 0
    /\ free = 0
    /\ SearchIdle
    /\ standalone = NoStandalone

\* parse_move(input), for a line read from the terminal.
CallParseMove(input) ==
    /\ call = NoCall
    /\ call' = [fn |-> "parse_move", input |-> input, shown |-> NoPos,
                ok |-> parse_move(input).ok, pos |-> parse_move(input).pos]
    /\ UNCHANGED <<game, old, last_op, last_pos, pc, debug_assertions, skipped, line, idx, free>>
    /\ UNCHANGED <<search_vars, standalone>>

\* parse_move on the line made of pos.to_string() and a newline.
CallParseDisplayed(pos) ==
    /\ call = NoCall
    /\ LET input == fmt(pos) \o <<10>>
       IN  call' = [fn |-> "parse_move", input |-> input, shown |-> pos,
                    ok |-> parse_move(input).ok, pos |-> parse_move(input).pos]
    /\ UNCHANGED <<game, old, last_op, last_pos, pc, debug_assertions, skipped, line, idx, free>>
    /\ UNCHANGED <<search_vars, standalone>>

NextParse ==
    \/ \E input \in InputLines : CallParseMove(input)
    \/ \E pos \in TilePos : CallParseDisplayed(pos)

SpecParse == InitParse /\ [][NextParse]_vars

(***************************************************************************)
(* Specification SpecTurns: a client that plays a game of Lines and, at    *)
(* any point of it, calls advance_turn up to MaxTurns times in a row.      *)
(***************************************************************************)
\* game.advance_turn(), whether or not the player to move has a move.
TurnsAdvance ==
    /\ pc = "api"
    /\ free < MaxTurns
    /\ DoAdvanceTurn
    /\ line' = 0
    /\ idx' = idx
    /\ free' = free + 1
    /\ UNCHANGED <<pc, debug_assertions, skipped, call>>
    /\ UNCHANGED <<search_vars, standalone>>

NextTurns ==
    \/ SearchPlay
    \/ TurnsAdvance

SpecTurns == Init /\ [][NextTurns]_vars

(***************************************************************************)
(* main.rs: the standalone program has its own Piece, Grid and Reversi.    *)
(* Its Reversi is [grid, current_player]: the valid moves are computed     *)
(* when asked for.                                                         *)
(***************************************************************************)
\* Piece::opposite of main.rs
main_opposite(p) == IF p = "X" THEN "O" ELSE "X"

\* Grid::default() (derived) of main.rs: tiles: [[Option<Piece>; 8]; 8], all None
main_Grid_default == [r \in 0 .. 7 |-> [c \in 0 .. 7 |-> None]]

\* self.tiles[0].len()
main_row_len(grid) == 8

\* self.tiles.len()
main_col_len(grid) == 8

\* &self.tiles[pos.row][pos.col]
main_tile(grid, pos) == grid[pos.row][pos.col]

\* self.tiles[pos.row][pos.col] = Some(piece)
main_place(grid, pos, piece) == [grid EXCEPT ![pos.row][pos.col] = piece]

\* Reversi::new()
main_Reversi_new ==
    LET g1 == main_place(main_Grid_default, P(3, 3), "X")
        g2 == main_place(g1, P(3, 4), "O")
        g3 == main_place(g2, P(4, 3), "O")
        g4 == main_place(g3, P(4, 4), "X")
    IN  [grid |-> g4, current_player |-> "X"]

\* main_directions without its last direction, (1, 1).
main_directions_without_last ==
    << <<-1, -1>>, <<-1, 0>>, <<-1, 1>>, <<0, -1>>, <<0, 1>>, <<1, -1>>, <<1, 0>> >>

\* let directions = &[(-1, -1), (-1, 0), (-1, 1), (0, -1), (0, 1), (1, -1), (1, 0), (1, 1)];
main_directions ==
    << <<-1, -1>>, <<-1, 0>>, <<-1, 1>>, <<0, -1>>, <<0, 1>>, <<1, -1>>, <<1, 0>>, <<1, 1>> >>

\* The loop `for i in 1..` of self.compute_flips(pos) for the direction
\* (drow, dcol): what it adds to flips.
RECURSIVE main_scan_direction(_, _, _, _, _, _)
main_scan_direction(g, pos, drow, dcol, i, found_opponents) ==
    LET player == g.current_player
        opponent == main_opposite(player)
        nrows == main_col_len(g.grid)
        ncols == main_row_len(g.grid)
        row == pos.row + drow * i
        col == pos.col + dcol * i
    IN  IF row >= 0 /\ row < nrows /\ col >= 0 /\ col < ncols
        THEN LET current_pos == [row |-> row, col |-> col]
                 piece == main_tile(g.grid, current_pos)
             IN  IF piece # None
                 THEN IF piece = opponent
                      THEN main_scan_direction(g, pos, drow, dcol, i + 1,
                                               Append(found_opponents, current_pos))
                      ELSE IF piece = player
                      THEN found_opponents
                      ELSE main_scan_direction(g, pos, drow, dcol, i + 1, found_opponents)
                 ELSE << >>
        ELSE << >>

\* The loop `for &(drow, dcol) in directions`, from the k-th direction on.
RECURSIVE main_flips_from(_, _, _)
main_flips_from(g, pos, k) ==
    IF k > Len(main_directions)
    THEN << >>
    ELSE main_scan_direction(g, pos, main_directions[k][1], main_directions[k][2], 1, << >>)
         \o main_flips_from(g, pos, k + 1)

\* self.compute_flips(pos), when its debug_assert! holds or is compiled out.
main_compute_flips(g, pos) == main_flips_from(g, pos, 1)

\* The loop over the tiles of row `row` in self.valid_moves(), from column col on.
RECURSIVE main_valid_moves_in_row(_, _, _)
main_valid_moves_in_row(g, row, col) ==
    IF col >= main_row_len(g.grid)
    THEN << >>
    ELSE IF g.grid[row][col] # None
         THEN main_valid_moves_in_row(g, row, col + 1)
         ELSE IF main_compute_flips(g, [row |-> row, col |-> col]) # << >>
              THEN <<[row |-> row, col |-> col]>> \o main_valid_moves_in_row(g, row, col + 1)
              ELSE main_valid_moves_in_row(g, row, col + 1)

\* The loop over the rows in self.valid_moves(), from row `row` on.
RECURSIVE main_valid_moves_from(_, _)
main_valid_moves_from(g, row) ==
    IF row >= main_col_len(g.grid)
    THEN << >>
    ELSE main_valid_moves_in_row(g, row, 0) \o main_valid_moves_from(g, row + 1)

\* self.valid_moves()
main_valid_moves(g) == main_valid_moves_from(g, 0)

\* self.advance_turn(): self.current_player = self.current_player.opposite()
main_advance_turn(g) == [g EXCEPT !.current_player = main_opposite(g.current_player)]

\* for flip_pos in flips { self.grid.place(flip_pos, player.clone()) }
RECURSIVE main_place_all(_, _, _)
main_place_all(grid, flips, player) ==
    IF flips = << >>
    THEN grid
    ELSE main_place_all(main_place(grid, Head(flips), player), Tail(flips), player)

\* self.make_move(pos) stops in a panic: the debug_assert! of compute_flips
\* (debug builds only) or the assert! on the flips.
main_make_move_panics(g, pos, dbg) ==
    \/ dbg /\ main_tile(g.grid, pos) # None
    \/ main_compute_flips(g, pos) = << >>

\* self.make_move(pos) when it does not panic.
main_make_move(g, pos) ==
    LET flips == main_compute_flips(g, pos)
        player == g.current_player
        flipped == main_place_all(g.grid, flips, player)
        placed == main_place(flipped, pos, player)
    IN  main_advance_turn([g EXCEPT !.grid = placed])

(***************************************************************************)
(* Specification SpecBoth: the Reversi of reversi.rs and the Reversi of    *)
(* main.rs, each made by its constructor, are given the same calls: legal  *)
(* moves and advance_turn.                                                 *)
(***************************************************************************)
InitBoth ==
    /\ game = Reversi_default
    /\ old = Reversi_default
    /\ last_op = "none"
    /\ last_pos = NoPos
    /\ pc = "api"
    /\ debug_assertions \in BOOLEAN
    /\ skipped = FALSE
    /\ call = NoCall
    /\ line \in 1 .. Len(Lines)
    /\ idx = 0
    /\ free = 0
    /\ SearchIdle
    /\ standalone = main_Reversi_new

\* make_move(pos) on both games, for a position of the library's list.  A
\* panic ends the program it happens in and leaves its game as it was.
BothMakeMove(pos) ==
    /\ pc = "api"
    /\ pos \in Range(game.valid_moves)
    /\ IF ScriptMove(pos) THEN FollowScript ELSE LeaveScript
    /\ DoMakeMove(pos, "api")
    /\ standalone' = IF main_make_move_panics(standalone, pos, debug_assertions)
                     THEN standalone
                     ELSE main_make_move(standalone, pos)
    /\ UNCHANGED <<debug_assertions, skipped, call>>
    /\ UNCHANGED search_vars

\* advance_turn() on both games.
BothAdvanceTurn ==
    /\ pc = "api"
    /\ IF line > 0 /\ game.valid_moves = << >>
       THEN UNCHANGED <<line, idx, free>>
       ELSE LeaveScript
    /\ DoAdvanceTurn
    /\ standalone' = main_advance_turn(standalone)
    /\ UNCHANGED <<pc, debug_assertions, skipped, call>>
    /\ UNCHANGED search_vars

NextBoth ==
    \/ \E pos \in TilePos : BothMakeMove(pos)
    \/ BothAdvanceTurn

SpecBoth == InitBoth /\ [][NextBoth]_vars

(***************************************************************************)
(* Properties.                                                             *)
(***************************************************************************)
\* The last call was a make_move with one of the legal moves.
LegalMoveMade == last_op = "make_move" /\ last_pos \in Range(old.valid_moves)

\* C1: in every state reached from Reversi::default() by make_move and
\* advance_turn calls, the cached valid_moves is the list compute_valid_moves
\* gives for the current grid and the current player.
C1_CacheIsFresh ==
    game.valid_moves = compute_valid_moves(game.grid, game.current_player)

\* A pass after at least one move, which changed the cached list.
C1_Witness ==
    /\ last_op = "advance_turn"
    /\ idx >= 1
    /\ game.valid_moves # old.valid_moves
    /\ game.valid_moves # << >>

InBoard(r, c) == r \in 0 .. N - 1 /\ c \in 0 .. N - 1

Dirs8 == {d \in {-1, 0, 1} \X {-1, 0, 1} : d # <<0, 0>>}

\* From pos in direction d: k tiles of the opponent, all on the board, and
\* then a tile of the player, on the board.
Bracketed(grid, player, pos, d, k) ==
    /\ \A j \in 1 .. k :
          /\ InBoard(pos.row + j * d[1], pos.col + j * d[2])
          /\ grid[pos.row + j * d[1]][pos.col + j * d[2]] = opposite(player)
    /\ InBoard(pos.row + (k + 1) * d[1], pos.col + (k + 1) * d[2])
    /\ grid[pos.row + (k + 1) * d[1]][pos.col + (k + 1) * d[2]] = player

\* The tiles of all bracketed runs.
Captured(grid, player, pos) ==
    UNION { {P(pos.row + j * dk[1][1], pos.col + j * dk[1][2]) : j \in 1 .. dk[2]}
            : dk \in {x \in Dirs8 \X (1 .. N) : Bracketed(grid, player, pos, x[1], x[2])} }

\* C2: compute_flips on an empty tile returns exactly the tiles of the runs
\* of opponent pieces that start next to the tile, in one of the 8
\* directions, and end at a piece of the player; a run that ends at an empty
\* tile or at the edge, and a direction that starts with the player's own
\* piece, add nothing.
C2_FlipsAreBracketedRuns ==
    call.fn = "compute_flips" =>
        Range(call.flips) = Captured(game.grid, call.player, call.pos)

\* The first tile in direction d is the opponent's, and the run of opponent
\* tiles it starts ends at the edge of the board.
RunToEdge(grid, player, pos, d) ==
    \E k \in 1 .. N :
        /\ \A j \in 1 .. k :
              /\ InBoard(pos.row + j * d[1], pos.col + j * d[2])
              /\ grid[pos.row + j * d[1]][pos.col + j * d[2]] = opposite(player)
        /\ ~InBoard(pos.row + (k + 1) * d[1], pos.col + (k + 1) * d[2])

\* A call with flips from two directions at least, one of them a run of two
\* tiles or more, and with a run that reaches the edge and is discarded.
C2_Witness ==
    /\ call.fn = "compute_flips"
    /\ \E d1 \in Dirs8, d2 \in Dirs8 :
          /\ d1 # d2
          /\ Bracketed(game.grid, call.player, call.pos, d1, 2)
          /\ Bracketed(game.grid, call.player, call.pos, d2, 1)
    /\ \E d \in Dirs8 : RunToEdge(game.grid, call.player, call.pos, d)

\* C3: compute_valid_moves returns only empty tiles, every tile it returns
\* has a non-empty compute_flips, and every empty tile it does not return has
\* an empty compute_flips.
C3_ValidMovesAreFlippingTiles ==
    call.fn = "compute_valid_moves" =>
        /\ \A t \in Range(call.moves) :
              /\ tile(game.grid, t) = None
              /\ compute_flips(game.grid, call.player, t) # << >>
        /\ \A t \in TilePos :
              (tile(game.grid, t) = None /\ t \notin Range(call.moves))
                  => compute_flips(game.grid, call.player, t) = << >>

\* A call that returns some tiles and leaves out some empty tiles, on a grid
\* where an occupied tile brackets a run as well.
C3_Witness ==
    /\ call.fn = "compute_valid_moves"
    /\ call.moves # << >>
    /\ \E t \in TilePos : tile(game.grid, t) = None /\ t \notin Range(call.moves)
    /\ \E t \in TilePos :
          tile(game.grid, t) # None /\ Captured(game.grid, call.player, t) # {}

\* C4: after make_move(pos) with pos one of valid_moves(), the tile at pos
\* and every tile of compute_flips(grid, mover, pos) belong to the mover,
\* every other tile is as it was, and the current player is the mover's
\* opponent.
C4_MakeMoveEffect ==
    LegalMoveMade =>
        /\ \A t \in TilePos :
              tile(game.grid, t) =
                  IF t = last_pos
                     \/ t \in Range(compute_flips(old.grid, old.current_player, last_pos))
                  THEN old.current_player
                  ELSE tile(old.grid, t)
        /\ game.current_player = opposite(old.current_player)

\* A legal move that flipped three tiles or more.
C4_Witness ==
    /\ LegalMoveMade
    /\ pc = "api"
    /\ Cardinality({t \in TilePos : tile(old.grid, t) = game.current_player
                                    /\ tile(game.grid, t) = old.current_player}) >= 3

\* C5: make_move(pos) with pos outside the legal-move list (an empty tile
\* with no flips, or an occupied tile) always ends in a panic; it never
\* completes as a move that places a piece or switches the player.
C5_InvalidMoveIsFatal ==
    Misused => (pc = "panicked" /\ game = old)

\* C6: advance_turn changes no tile of the grid, and after it the current
\* player is the opposite piece: of the three fields of the game only
\* current_player and the cached list differ.
C6_AdvanceTurnFrame ==
    last_op = "advance_turn" =>
        /\ \A t \in TilePos : tile(game.grid, t) = tile(old.grid, t)
        /\ game.current_player = opposite(old.current_player)
        /\ game.current_player # old.current_player

\* A pass, after some moves, of a player who had moves; the list changed.
C6_Witness ==
    /\ last_op = "advance_turn"
    /\ idx >= 2
    /\ old.valid_moves # << >>
    /\ game.valid_moves # old.valid_moves

\* The game is over where the loop stands: the grid is full, or the ply
\* before was a pass and the player to move has no legal move.
GameOver ==
    \/ is_full(game.grid)
    \/ last_op = "advance_turn" /\ game.valid_moves = << >>

\* C7: an iteration of the driver's loop declares the game complete exactly
\* when the grid is full or the ply before was a pass and the player to move
\* has no legal move.
C7_CompleteIffGameOver ==
    [][pc = "loop" => ((pc' = "complete") <=> GameOver)]_vars

\* Complete after two passes in a row, with empty tiles left and pieces of
\* both players on the grid.
C7_Witness ==
    /\ pc = "complete"
    /\ ~is_full(game.grid)
    /\ last_op = "advance_turn"
    /\ scores(game)[1] > 0
    /\ scores(game)[2] > 0

\* Complete with a full grid.
C7_WitnessFull == pc = "complete" /\ is_full(game.grid)

\* C8: in the initial state (X at (3,3) and (4,4), O at (3,4) and (4,3), X
\* to move) valid_moves() is [(2,4), (3,5), (4,2), (5,3)] in this order, and
\* compute_flips has exactly one element for each of the four.
C8_InitialValidMoves ==
    last_op = "none" =>
        /\ \A t \in TilePos :
              tile(game.grid, t) =
                  IF t \in {P(3, 3), P(4, 4)} THEN "X"
                  ELSE IF t \in {P(3, 4), P(4, 3)} THEN "O"
                  ELSE None
        /\ game.current_player = "X"
        /\ game.valid_moves = <<P(2, 4), P(3, 5), P(4, 2), P(5, 3)>>
        /\ \A t \in Range(game.valid_moves) :
              Len(compute_flips(game.grid, game.current_player, t)) = 1

C8_Witness ==
    /\ last_op = "none"
    /\ pc = "api"
    /\ Len(game.valid_moves) = 4

\* make_move((2,4)) has just been applied to the initial state.
FirstMoveMade ==
    /\ last_op = "make_move"
    /\ last_pos = P(2, 4)
    /\ old = Reversi_default

\* C9: make_move((2,4)) on the initial state flips tile (3,4) from O to X
\* and no other tile, gives scores() = (4, 1), makes O the current player,
\* and leaves O a non-empty legal-move list different from X's initial one.
C9_FirstMove ==
    FirstMoveMade =>
        /\ {t \in TilePos : tile(old.grid, t) # None /\ tile(game.grid, t) # tile(old.grid, t)}
              = {P(3, 4)}
        /\ tile(old.grid, P(3, 4)) = "O"
        /\ tile(game.grid, P(3, 4)) = "X"
        /\ scores(game) = <<4, 1>>
        /\ game.current_player = "O"
        /\ game.valid_moves # << >>
        /\ game.valid_moves # old.valid_moves

C9_Witness == FirstMoveMade /\ pc = "api" /\ idx = 1

\* Position a comes before position b in row-major order.
RowMajorBefore(a, b) == a.row < b.row \/ (a.row = b.row /\ a.col < b.col)

\* C10: in every reachable state the legal-move list is in row-major order,
\* strictly increasing by row and then column (so without duplicates).
C10_ValidMovesRowMajor ==
    \A i \in 1 .. Len(game.valid_moves) - 1 :
        RowMajorBefore(game.valid_moves[i], game.valid_moves[i + 1])

\* A list, after a move, of five moves or more, two of them in one row.
C10_Witness ==
    /\ last_op = "make_move"
    /\ Len(game.valid_moves) >= 5
    /\ \E i \in 1 .. Len(game.valid_moves) - 1 :
          game.valid_moves[i].row = game.valid_moves[i + 1].row
    /\ \E i \in 1 .. Len(game.valid_moves) - 1 :
          game.valid_moves[i].row < game.valid_moves[i + 1].row

\* C11: compute_ai_move called with a non-empty list that is the game's
\* valid_moves() returns, without a panic, a member of that list; so does
\* random_ai.
C11_AiMoveIsLegal ==
    /\ \A k \in 1 .. Len(searches) :
          (searches[k].valid_moves # << >> /\ searches[k].valid_moves = game.valid_moves)
              => searches[k].move \in Range(game.valid_moves)
    /\ (call.fn \in {"compute_ai_move", "random_ai"} /\ call.moves # << >>)
          => pc # "panicked"
    /\ (call.fn = "random_ai" /\ call.moves # << >>) => call.pos \in Range(call.moves)

\* A search over four moves or more returned a move that is not the first
\* of the list, to a caller that passed the game's valid_moves().
C11_Witness ==
    /\ pc = "api"
    /\ searches # << >>
    /\ Len(searches[1].valid_moves) >= 4
    /\ searches[1].valid_moves = game.valid_moves
    /\ searches[1].move # searches[1].valid_moves[1]
    /\ searches[1].move \in Range(game.valid_moves)

\* C12: compute_ai_move called with an empty list never returns a move: for
\* every game it ends in a panic.
C12_EmptyListIsFatal ==
    \A k \in 1 .. Len(searches) : searches[k].valid_moves # << >>

\* C13: a search never changes the game it is given.  While it runs, the
\* game behind every call's `game` reference (grid, current player and
\* cached list) is as it was when the call was made, and the outermost call
\* works on the caller's game; a call that returns leaves its game as it was
\* given; and the game of a compute_ai_move that returned is the caller's.
C13_SearchLeavesGameAlone ==
    /\ \A k \in 1 .. Len(stack) : stack[k].game = stack[k].given
    /\ stack # << >> => stack[1].game = game
    /\ (call.fn = "compute_ai_move" /\ ret # << >>) => ret[1].frame.game = ret[1].frame.given
    /\ \A k \in 1 .. Len(searches) : searches[k].game = game

\* Three calls deep, a second sibling is being searched below a caller that
\* is itself a second sibling or later: its first child has returned.
C13_Witness ==
    /\ pc = "search"
    /\ Len(stack) >= 4
    /\ stack[2].i >= 2
    /\ stack[3].i >= 2
    /\ stack[3].game = stack[3].given
    /\ stack[3].game # stack[2].game

MaxOf(S) == CHOOSE m \in S : \A x \in S : x <= m

\* The negamax value of a node, for the player to move at the node, with
\* the random term 0: the evaluation at a cutoff, the negated value of the
\* child at a pass, and the greatest negated value of a child otherwise.
RECURSIVE V(_, _, _, _)
V(g, valid, sk, depth) ==
    IF depth >= MAX_DEPTH \/ is_full(g.grid) \/ (sk /\ valid = << >>)
    THEN negamax_score(g, g.current_player, 0)
    ELSE IF valid = << >>
         THEN 0 - V(advance_turn(g), advance_turn(g).valid_moves, TRUE, depth + 1)
         ELSE MaxOf({0 - V(make_move(g, m), make_move(g, m).valid_moves, FALSE, depth + 1)
                     : m \in Range(valid)})

\* C15: with the random term fixed to 0, every call of negamax in a search
\* returns the negamax value of its node, the score for the player to move
\* at that node; at a node where the turn is skipped as well.  The searches
\* are those over the game's non-empty valid_moves().
C15_ScoreIsNegamaxValue ==
    (ZeroNoise /\ call.fn = "compute_ai_move" /\ call.moves # << >> /\ ret # << >>)
        => ret[1].score = V(ret[1].frame.given, ret[1].frame.valid_moves,
                            ret[1].frame.skipped, ret[1].frame.depth)

Corners == {P(0, 0), P(0, N - 1), P(N - 1, 0), P(N - 1, N - 1)}

\* The tiles of the first and last rows and columns, the corners included.
Border == {t \in TilePos : t.row \in {0, N - 1} \/ t.col \in {0, N - 1}}

\* Tiles of T that are the player's, less those that are the opponent's.
Balance(grid, player, T) ==
    Cardinality({t \in T : tile(grid, t) = player})
    - Cardinality({t \in T : tile(grid, t) = opposite(player)})

\* The game with the tile at pos emptied.
Without(g, pos) == [g EXCEPT !.grid = place(g.grid, pos, None)]

\* C16: with the random term fixed to 0, the piece on a corner changes
\* negamax_score by CORNER_BONUS beyond the tile count: the score with the
\* piece is the score without it plus 1 + 4 when the piece is the player's
\* and minus 1 + 4 when it is the opponent's.
C16_CornerIsWorthCornerBonus ==
    (ZeroNoise /\ call.fn = "negamax_score") =>
        \A t \in Corners :
            tile(game.grid, t) # None =>
                ret[1].score - negamax_score(Without(game, t), call.player, 0)
                    = IF tile(game.grid, t) = call.player
                      THEN 1 + CORNER_BONUS
                      ELSE 0 - (1 + CORNER_BONUS)

\* C17: with the random term fixed to 0, negamax_score is the player's tile
\* count less the opponent's, plus SIDE_BONUS for each border tile of the
\* player that is not a corner, less SIDE_BONUS for each such tile of the
\* opponent, plus what the pieces on the corners add (the score of the
\* corner pieces alone, less their count); other tiles add nothing.
C17_BaseAndSideBonus ==
    (ZeroNoise /\ call.fn = "negamax_score") =>
        LET corners_only == [game EXCEPT !.grid =
                                [r \in 0 .. N - 1 |-> [c \in 0 .. N - 1 |->
                                    IF P(r, c) \in Corners THEN game.grid[r][c] ELSE None]]]
            corner_part == negamax_score(corners_only, call.player, 0)
                           - Balance(game.grid, call.player, Corners)
        IN  ret[1].score = Balance(game.grid, call.player, TilePos)
                           + SIDE_BONUS * Balance(game.grid, call.player, Border \ Corners)
                           + corner_part

\* An evaluation of a grid with border tiles of both players that are not
\* corners, interior tiles of both players, empty tiles and an empty corner.
C17_Witness ==
    /\ ZeroNoise
    /\ call.fn = "negamax_score"
    /\ \A p \in Piece :
          /\ \E t \in Border \ Corners : tile(game.grid, t) = p
          /\ \E t \in TilePos \ Border : tile(game.grid, t) = p
    /\ Balance(game.grid, call.player, Border \ Corners) # 0
    /\ \E t \in Corners : tile(game.grid, t) = None
    /\ \E t \in Corners : tile(game.grid, t) # None

\* C18: the random term of an evaluation is in [-100, 100), and the
\* negation of every value it takes is a value it can take.
C18_RandomTermSymmetric ==
    \A v \in rng.drawn :
        /\ v \in -100 .. 99
        /\ (0 - v) \in gen_range(-100, 100)

\* C19: in every reachable state scores() is (number of tiles of X, number
\* of tiles of O) on the current grid; the sum of the two is the number of
\* tiles that are not empty, and it is 64 exactly when the grid is_full().
C19_ScoresCountTiles ==
    /\ scores(game)[1] = Cardinality({t \in TilePos : tile(game.grid, t) = "X"})
    /\ scores(game)[2] = Cardinality({t \in TilePos : tile(game.grid, t) = "O"})
    /\ scores(game)[1] + scores(game)[2]
          = Cardinality({t \in TilePos : tile(game.grid, t) # None})
    /\ (scores(game)[1] + scores(game)[2] = 64) <=> is_full(game.grid)

\* The grid has just been filled by a move, with pieces of both players on it.
C19_Witness ==
    /\ last_op = "make_move"
    /\ is_full(game.grid)
    /\ ~is_full(old.grid)
    /\ scores(game)[1] + scores(game)[2] = 64
    /\ scores(game)[1] > 0
    /\ scores(game)[2] > 0

\* C20: opposite is an involution without a fixed point: for both pieces,
\* and so for the player to move and the player before every call that
\* changed the turn, opposite(opposite(p)) = p and opposite(p) # p.
C20_OppositeInvolution ==
    /\ \A p \in Piece : opposite(opposite(p)) = p /\ opposite(p) # p /\ opposite(p) \in Piece
    /\ opposite(opposite(game.current_player)) = game.current_player
    /\ (last_op # "none" /\ pc # "panicked") =>
          /\ opposite(old.current_player) = game.current_player
          /\ opposite(game.current_player) = old.current_player

\* Two turn changes in a row gave the turn back: after X's move, O has
\* passed and X is to move again.
C20_Witness ==
    /\ last_op = "advance_turn"
    /\ old.current_player = "O"
    /\ game.current_player = "X"
    /\ opposite(opposite(game.current_player)) = "X"
    /\ idx >= 1

\* The step returns r from the innermost call to its caller.
Returns(r) == ret' = <<r>> /\ stack' = SubSeq(stack, 1, Len(stack) - 1)

\* C21: a node of the search is a cutoff exactly when depth >= MAX_DEPTH, or
\* the grid is full, or the ply before was a pass and the node has no move.
\* At a cutoff the call returns at once, with no move and the evaluation of
\* the game for the player to move at the node; at any other node the call
\* does not return at once, and no step but a cutoff draws a random term.
C21_CutoffExactlyAtLeaves ==
    [][pc = "search" =>
         LET leaf == /\ stack # << >>
                     /\ Top.at = "entry"
                     /\ \/ Top.depth >= 4
                        \/ is_full(Top.game.grid)
                        \/ (Top.skipped /\ Top.valid_moves = << >>)
         IN  /\ leaf => Returns([move |-> NoPos,
                                 score |-> negamax_score(Top.game, Top.game.current_player, 0)
                                           + score_error,
                                 frame |-> Top])
             /\ (stack # << >> /\ Top.at = "entry" /\ ~leaf)
                   => (ret' = << >> /\ Len(stack') = Len(stack) + 1)
             /\ ~leaf => rng' = rng
             /\ (leaf /\ Len(rng.errs) > 1) => rng' # rng]_vars

\* A cutoff by two passes in a row, above MAX_DEPTH and with empty tiles,
\* has returned no move and a score.
C21_Witness ==
    /\ pc = "search"
    /\ ret # << >>
    /\ ret[1].frame.at = "entry"
    /\ ret[1].frame.depth < MAX_DEPTH
    /\ ret[1].frame.depth >= 2
    /\ ret[1].frame.skipped
    /\ ~is_full(ret[1].frame.game.grid)
    /\ ret[1].move = NoPos
    /\ rng.drawn # {}

\* C22: at a node without a move that is not a cutoff the search makes one
\* recursive call, on a game with the same grid and the opposite player
\* (and that player's moves), with the pass flag true and depth + 1, and
\* when that call returns it returns the same move and the same score.
C22_PassBranch ==
    [][pc = "search" /\ stack # << >> =>
         /\ (Top.at = "entry" /\ Top.valid_moves = << >>
               /\ ~(Top.depth >= MAX_DEPTH \/ is_full(Top.game.grid) \/ Top.skipped))
              => /\ Len(stack') = Len(stack) + 1
                 /\ stack'[Len(stack)].at = "pass"
                 /\ LET child == stack'[Len(stack')]
                    IN  /\ child.game.grid = Top.game.grid
                        /\ child.game.current_player = opposite(Top.game.current_player)
                        /\ child.game.current_player # Top.game.current_player
                        /\ child.valid_moves
                              = compute_valid_moves(Top.game.grid,
                                                    opposite(Top.game.current_player))
                        /\ child.skipped = TRUE
                        /\ child.depth = Top.depth + 1
                        /\ child.at = "entry"
         /\ (Top.at = "pass" /\ ret # << >>)
              => /\ ret' # << >>
                 /\ ret'[1].move = ret[1].move
                 /\ ret'[1].score = ret[1].score
                 /\ stack' = SubSeq(stack, 1, Len(stack) - 1)
         /\ (Top.at = "pass" /\ ret = << >>) => FALSE]_vars

\* A pass node below the root has returned the move and the score of its
\* child, which had moves.
C22_Witness ==
    /\ pc = "search"
    /\ ret # << >>
    /\ ret[1].frame.at = "pass"
    /\ ret[1].frame.depth >= 1
    /\ ret[1].move # NoPos
    /\ ret[1].score # 0

\* What the call negamax(rng, &g, &valid, sk, depth) returns as score when
\* every random term is 0: the evaluation at a cutoff, the score of the
\* child at a pass, the greatest negated score of a child otherwise.
RECURSIVE W(_, _, _, _)
W(g, valid, sk, depth) ==
    IF depth >= MAX_DEPTH \/ is_full(g.grid) \/ (sk /\ valid = << >>)
    THEN negamax_score(g, g.current_player, 0)
    ELSE IF valid = << >>
         THEN W(advance_turn(g), advance_turn(g).valid_moves, TRUE, depth + 1)
         ELSE MaxOf({0 - W(make_move(g, m), make_move(g, m).valid_moves, FALSE, depth + 1)
                     : m \in Range(valid)})

\* The negated score of the child for the k-th move of the node of frame f,
\* with every random term 0.
NegatedChildScore(f, k) ==
    0 - W(make_move(f.given, f.valid_moves[k]),
          make_move(f.given, f.valid_moves[k]).valid_moves, FALSE, f.depth + 1)

\* The first index of the list whose negated child score is the greatest.
FirstBest(f) ==
    LET best == MaxOf({NegatedChildScore(f, k) : k \in 1 .. Len(f.valid_moves)})
    IN  CHOOSE k \in 1 .. Len(f.valid_moves) :
            /\ NegatedChildScore(f, k) = best
            /\ \A j \in 1 .. k - 1 : NegatedChildScore(f, j) < best

\* C23: at a node with moves the move returned is the first of the list,
\* which is in row-major order, among the moves whose negated child score is
\* the greatest, and the score returned is that score (checked with every
\* random term 0); and in every iteration the move replaces the best so far
\* only when its negated score is strictly greater, so ties keep the
\* earlier move.
C23_FirstBestMove ==
    /\ [](
          (ZeroNoise /\ call.fn = "compute_ai_move" /\ ret # << >> /\ ret[1].frame.at = "loop")
              => /\ ret[1].move = ret[1].frame.valid_moves[FirstBest(ret[1].frame)]
                 /\ ret[1].score = NegatedChildScore(ret[1].frame, FirstBest(ret[1].frame))
                 /\ \A k \in 1 .. Len(ret[1].frame.valid_moves) - 1 :
                       RowMajorBefore(ret[1].frame.valid_moves[k],
                                      ret[1].frame.valid_moves[k + 1]))
    /\ [][(pc = "search" /\ stack # << >> /\ Top.at = "loop" /\ ret # << >>) =>
            LET score == 0 - ret[1].score
                after == IF ret' = << >> THEN stack'[Len(stack)] ELSE ret'[1].frame
            IN  IF score > Top.max_score
                THEN after.max_move = Top.valid_moves[Top.i] /\ after.max_score = score
                ELSE after.max_move = Top.max_move /\ after.max_score = Top.max_score]_vars

\* A node with three moves or more has returned its second move or a later
\* one, while a move after it has the same greatest negated score: a tie
\* that the earlier move won.
C23_Witness ==
    /\ ZeroNoise
    /\ call.fn = "compute_ai_move"
    /\ ret # << >>
    /\ ret[1].frame.at = "loop"
    /\ Len(ret[1].frame.valid_moves) >= 3
    /\ FirstBest(ret[1].frame) >= 2
    /\ \E k \in FirstBest(ret[1].frame) + 1 .. Len(ret[1].frame.valid_moves) :
          NegatedChildScore(ret[1].frame, k) = ret[1].score
    /\ ret[1].move = ret[1].frame.valid_moves[FirstBest(ret[1].frame)]

\* C24: in every run of the driver's loop make_move is only called with a
\* position of the current valid_moves() (the one prompt_move returned as Ok
\* or the one compute_ai_move returned), so neither the assert! on the flips
\* nor the debug_assert! of compute_flips fails and the move takes effect.
C24_DriverMovesAreLegal ==
    last_op = "make_move" =>
        /\ last_pos \in Range(old.valid_moves)
        /\ tile(old.grid, last_pos) = None
        /\ compute_flips(old.grid, old.current_player, last_pos) # << >>
        /\ ~make_move_panics(old, last_pos, debug_assertions)
        /\ tile(game.grid, last_pos) = old.current_player
        /\ game.current_player = opposite(old.current_player)

\* The AI has made a move that is not the scripted one, after a move of
\* the human player.
C24_Witness ==
    /\ pc = "loop"
    /\ last_op = "make_move"
    /\ old.current_player \in ai_controlled
    /\ free = 1
    /\ idx >= 1
    /\ last_pos \in Range(old.valid_moves)

\* The loop's test for the end of the game, in the state before a step.
CompleteNow == is_full(game.grid) \/ (skipped /\ game.valid_moves = << >>)

\* A step of the loop that passes: the turn changes, the grid does not.
PassStep ==
    /\ pc = "loop"
    /\ game'.grid = game.grid
    /\ game'.current_player # game.current_player

\* A step of the loop that makes a move.
MoveStep == pc = "loop" /\ game'.grid # game.grid

\* C25: the driver passes (advance_turn, with skipped set) only when the
\* game is not complete and the player to move has no valid move; a player
\* with a valid move is never passed over; and skipped is false after every
\* move, whatever it was before.
C25_PassOnlyWithoutMoves ==
    [][/\ PassStep => /\ ~CompleteNow
                      /\ game.valid_moves = << >>
                      /\ compute_valid_moves(game.grid, game.current_player) = << >>
                      /\ skipped' = TRUE
                      /\ last_op' = "advance_turn"
       /\ (pc = "loop" /\ game.valid_moves # << >>) => ~PassStep
       /\ MoveStep => /\ skipped' = FALSE
                      /\ game.valid_moves # << >>
                      /\ last_op' = "make_move"
       /\ (pc = "loop" /\ skipped' # skipped) => (PassStep \/ skipped' = FALSE)]_vars

\* A pass has just been made for a player without a move, on a grid that is
\* not full, and the other player can move.
C25_Witness ==
    /\ pc = "loop"
    /\ last_op = "advance_turn"
    /\ skipped
    /\ old.valid_moves = << >>
    /\ game.valid_moves # << >>
    /\ ~is_full(game.grid)

\* C28: when the driver declares the game complete after two passes in a
\* row, neither player has a valid move on the final grid; and whenever the
\* grid is full the list of valid moves is empty for both players.
C28_NoMovesAtTheEnd ==
    /\ (pc = "complete" /\ ~is_full(game.grid)) =>
          /\ last_op = "advance_turn"
          /\ skipped
          /\ \A p \in Piece : compute_valid_moves(game.grid, p) = << >>
          /\ game.valid_moves = << >>
          /\ old.valid_moves = << >>
    /\ is_full(game.grid) =>
          /\ \A p \in Piece : compute_valid_moves(game.grid, p) = << >>
          /\ game.valid_moves = << >>

\* The game has been declared complete after two passes in a row, late in a
\* game, with empty tiles left and pieces of both players on the grid.
C28_Witness ==
    /\ pc = "complete"
    /\ ~is_full(game.grid)
    /\ skipped
    /\ scores(game)[1] > 0
    /\ scores(game)[2] > 0
    /\ idx >= 50

\* C29: a legal make_move flips k >= 1 tiles, raises the mover's count of
\* tiles by k + 1 and lowers the opponent's by k; no call empties a tile;
\* and after n moves and any number of passes from the initial state the
\* number of occupied tiles is 4 + n.
C29_TileCounts ==
    /\ LegalMoveMade =>
          LET k == Len(compute_flips(old.grid, old.current_player, last_pos))
              mover == IF old.current_player = "X" THEN 1 ELSE 2
              other == IF old.current_player = "X" THEN 2 ELSE 1
          IN  /\ k >= 1
              /\ scores(game)[mover] = scores(old)[mover] + k + 1
              /\ scores(game)[other] = scores(old)[other] - k
    /\ \A t \in TilePos : tile(old.grid, t) # None => tile(game.grid, t) # None
    /\ Cardinality({t \in TilePos : tile(game.grid, t) # None}) = 4 + idx + free
    /\ idx + free <= 60

\* Late in a game, a move has flipped four tiles or more.
C29_Witness ==
    /\ pc = "loop"
    /\ LegalMoveMade
    /\ Len(compute_flips(old.grid, old.current_player, last_pos)) >= 4
    /\ Cardinality({t \in TilePos : tile(game.grid, t) # None}) > 4 + 50
    /\ idx > 50

\* C26: for every position of the grid, parse_move on the text Display
\* writes for it (the column letter, then the row digit) and a newline gives
\* that position back; and the upper-case, lower-case, letter-first and
\* digit-first forms of a position all parse to it, with row = digit - 1
\* and col = the index of the letter.
C26_DisplayParseRoundTrip ==
    call.fn = "parse_move" =>
        /\ call.shown # NoPos =>
              /\ call.ok
              /\ call.pos = call.shown
              /\ Len(call.input) = 3
              /\ call.input[1] \in 65 .. 72
              /\ call.input[2] \in 49 .. 56
        /\ \A r \in 0 .. 7, c \in 0 .. 7 :
              call.input \in { <<65 + c, 49 + r, 10>>, <<97 + c, 49 + r, 10>>,
                               <<49 + r, 65 + c, 10>>, <<49 + r, 97 + c, 10>> }
                  => (call.ok /\ call.pos = P(r, c))

\* The text of a position off the diagonal has been parsed back.
C26_Witness ==
    /\ call.fn = "parse_move"
    /\ call.shown # NoPos
    /\ call.shown.row > call.shown.col
    /\ call.shown.col > 0
    /\ call.ok
    /\ call.pos = call.shown

\* Twice the number of empty tiles, plus one when the turn before was not
\* skipped.
Measure(g, sk) == 2 * (64 - scores(g)[1] - scores(g)[2]) + (IF sk THEN 0 ELSE 1)

\* C27: every run of the driver's loop in which each move asked for is
\* supplied reaches the game-complete branch; at most 60 moves are made;
\* every iteration either ends the game or lowers Measure (a move fills a
\* tile, a pass sets skipped); a pass is never made right after a pass; and
\* when the player to move after a pass has no move, the next iteration
\* ends the game.
C27_DriverTerminates ==
    /\ <>(pc = "complete")
    /\ [](CallsMade <= 60)
    /\ [][pc = "loop" =>
             (pc' = "complete" \/ Measure(game', skipped') < Measure(game, skipped))]_vars
    /\ [][PassStep => ~skipped]_vars
    /\ [][(pc = "loop" /\ skipped /\ game.valid_moves = << >>) => pc' = "complete"]_vars

\* A game of 58 moves has ended by a double pass on a grid that is not
\* full, with pieces of both players on it.
C27_Witness ==
    /\ pc = "complete"
    /\ skipped
    /\ ~is_full(game.grid)
    /\ CallsMade = 58
    /\ scores(game)[1] > 0
    /\ scores(game)[2] > 0

\* C30: every search called at depth 0 comes to its end; the frames of the
\* calls in progress have depths 0, 1, 2, ... from the outermost call in,
\* so every recursive call, after a move or after a pass, has the depth of
\* its caller plus one; and no call has a depth above MAX_DEPTH.
C30_SearchTerminates ==
    /\ (pc = "search") ~> (pc # "search")
    /\ [](\A k \in 1 .. Len(stack) : stack[k].depth = k - 1 /\ stack[k].depth <= MAX_DEPTH)
    /\ [][(stack # << >> /\ Len(stack') = Len(stack) + 1) =>
             /\ stack'[Len(stack')].depth = Top.depth + 1
             /\ stack'[Len(stack')].depth <= 4
             /\ stack'[Len(stack)].at \in {"pass", "loop"}]_vars

\* A call at depth 4 is in progress, below a call made after a pass, on a
\* grid that is not full and where the search would go on but for the depth.
C30_Witness ==
    /\ pc = "search"
    /\ Len(stack) = 5
    /\ Top.depth = 4
    /\ Top.at = "entry"
    /\ ~is_full(Top.game.grid)
    /\ ~(Top.skipped /\ Top.valid_moves = << >>)
    /\ \E k \in 1 .. 4 : stack[k].at = "pass"

\* C31: with the random term at 0, negamax_score for X is the negation of
\* negamax_score for O, on the game of every state and on the game of the
\* call of the search in progress; and the score a call negamax_score(game,
\* player) returned with the term at 0 is the negation of the score for the
\* other player.
C31_EvaluatorAntisymmetric ==
    /\ negamax_score(game, "X", 0) = 0 - negamax_score(game, "O", 0)
    /\ stack # << >> =>
          negamax_score(Top.game, "X", 0) = 0 - negamax_score(Top.game, "O", 0)
    /\ (call.fn = "negamax_score" /\ ZeroNoise /\ ret # << >>) =>
          ret[1].score = 0 - negamax_score(game, opposite(call.player), 0)

\* negamax_score has returned, with the term at 0, a score that is not 0 on
\* a grid with an occupied corner and pieces of both players.
C31_Witness ==
    /\ call.fn = "negamax_score"
    /\ ZeroNoise
    /\ ret # << >>
    /\ ret[1].score # 0
    /\ tile(game.grid, P(0, 0)) # None
    /\ scores(game)[1] > 0
    /\ scores(game)[2] > 0

\* C32: an advance_turn call made right after an advance_turn call gives
\* back the game as it was before the first of the two: the same grid, the
\* same current player and the same list of valid moves.
C32_TwoTurnsRestore ==
    [][(last_op = "advance_turn" /\ last_op' = "advance_turn" /\ old' = game) =>
          /\ game'.grid = old.grid
          /\ game'.current_player = old.current_player
          /\ game'.valid_moves = old.valid_moves
          /\ game' = old]_vars

\* Two advance_turn calls have been made in the middle of a game, between
\* two players who both have moves, and not the same ones.
C32_Witness ==
    /\ last_op = "advance_turn"
    /\ free = 2
    /\ idx > 10
    /\ game.valid_moves # << >>
    /\ old.valid_moves # << >>
    /\ game.valid_moves # old.valid_moves
    /\ advance_turn(old) = game

\* C33: after the same legal make_move and advance_turn calls from their
\* constructors, the Reversi of main.rs and the Reversi of reversi.rs have
\* the same grid and the same current player, and valid_moves() of main.rs,
\* computed when asked for, is the list the library has cached.
C33_VariantsAgree ==
    /\ pc = "api"
    /\ standalone.grid = game.grid
    /\ standalone.current_player = game.current_player
    /\ main_valid_moves(standalone) = game.valid_moves

\* Both games have been played to a grid with a piece on row 7 and column 7,
\* then given an advance_turn call, and the player to move has moves.
C33_Witness ==
    /\ last_op = "advance_turn"
    /\ idx > 20
    /\ standalone.grid = game.grid
    /\ \E t \in TilePos : (t.row = 7 \/ t.col = 7) /\ tile(game.grid, t) # None
    /\ main_valid_moves(standalone) # << >>
    /\ standalone.current_player = game.current_player

====
